---- MODULE Spec2Model ----
(***************************************************************************)
(* Verification model of the OpenClaw observational memory pipeline:       *)
(*   - InteractionChunker, IPAEvaluator                                    *)
(*                    (src/.openclaw/ipa/ipa_evaluator.py)                 *)
(*   - ReflectorAgent / ObserverAgent                                      *)
(*                    (src/.openclaw/observational_memory/*_agent.py)      *)
(*   - ObservationalMemory, the memory controller                          *)
(*                    (src/.openclaw/observational_memory/__init__.py)     *)
(*                                                                         *)
(* The specifications of the module:                                       *)
(*   SpecChunk    the chunker, a pure function run loop iteration by loop  *)
(*                iteration over every bounded message sequence;           *)
(*   SpecEval     evaluate_thread: the chunker, then the evaluation of     *)
(*                every chunk and the thread score;                        *)
(*   SpecObserve  the Observer's deterministic extraction applied to       *)
(*                every bounded message list;                              *)
(*   SpecReflect  the Reflector's deterministic condensation applied to    *)
(*                every bounded observation list, once and repeatedly;     *)
(*   Spec         the controller: process_messages / force_reflection      *)
(*                writers, statement by statement, on several thread ids;  *)
(*   SpecConc     one thread id with its writers and a concurrent          *)
(*                get_context / get_stats reader, statement by statement;  *)
(*   SpecCtor     the controller constructed with any configuration, the   *)
(*                writers on one thread id;                                *)
(*   SpecChunkLive  SpecChunk with weak fairness of the chunker's loop.    *)
(***************************************************************************)
EXTENDS Integers, Sequences, FiniteSets, TLC

VARIABLES
    \* ---- InteractionChunker.chunk (locals of one call)
    messages,        \* the message sequence handed to chunk()
    min_chunk_size,  \* self.min_chunk_size
    max_chunk_size,  \* self.max_chunk_size
    i,               \* the loop index of chunk()
    chunks,          \* the list of InteractionChunk built so far
    cpc,             \* "off" | "loop" | "done"
    \* ---- ReflectorAgent.reflect (one call)
    rin,             \* the observation list handed to reflect()
    rout,            \* the list it returned
    rpc,             \* "off" | "ready" | "done" | "again"
    rounds,          \* how many times reflect() has been applied, each on the last result
    \* ---- ObserverAgent.extract_observations (one call)
    omsgs,           \* the messages handed to extract_observations()
    oout,            \* the tuple it returned
    opc,             \* "off" | "ready" | "done"
    \* ---- IPAEvaluator.evaluate_thread (locals of one call)
    paom,            \* self.paom: <<>> (None) or <<the context its get_context returns>>
    chunk_results,   \* the list of ChunkEvaluationResult built so far
    overall_score,   \* the thread-level score returned
    epc,             \* "off" | "run" | "done"
    \* ---- ObservationalMemory (the controller)
    storage,         \* thread id -> stored record object, or NoRecord
    config,          \* self.config
    wpc,             \* thread id -> position of the writer call in flight
    wrec,            \* thread id -> the call's `record` when it is a fresh object
    wref,            \* thread id -> what `record` refers to: "none" | "new" | "stored"
    wnew,            \* thread id -> new_observations
    wtask,           \* thread id -> current_task returned by the Observer
    wsugg,           \* thread id -> suggested returned by the Observer
    wcombined,       \* thread id -> combined / reflected
    wreflected,      \* thread id -> the call ran the Reflector
    wpre,            \* thread id -> the stored record when the call began
    wresult,         \* thread id -> what the last finished call returned
    calls,           \* number of writer calls begun
    reader           \* the reader call in flight (get_context / get_stats)

chunkVars == <<messages, min_chunk_size, max_chunk_size, i, chunks, cpc>>
reflVars  == <<rin, rout, rpc, rounds>>
obsVars   == <<omsgs, oout, opc>>
evalVars  == <<paom, chunk_results, overall_score, epc>>
memVars   == <<storage, config, wpc, wrec, wref, wnew, wtask, wsugg, wcombined,
               wreflected, wpre, wresult, calls, reader>>
vars      == <<messages, min_chunk_size, max_chunk_size, i, chunks, cpc,
               rin, rout, rpc, rounds,
               omsgs, oout, opc,
               paom, chunk_results, overall_score, epc,
               storage, config, wpc, wrec, wref, wnew, wtask, wsugg, wcombined,
               wreflected, wpre, wresult, calls, reader>>

-----------------------------------------------------------------------------
(* Bounds of the model *)

\* longest message sequence handed to chunk()
MaxSeqLen == 5
\* largest max_chunk_size tried
MaxChunkSize == 3
\* longest observation list handed to reflect()
MaxObsLen == 4
\* most successive reflections of one observation list
MaxRounds == 3
\* longest message sequence handed to evaluate_thread()
MaxEvalLen == 3
\* most messages in one extract_observations call
MaxObsMsgs == 2
\* most messages in one process_messages call
MaxMsgs == 1
\* writer calls (process_messages, force_reflection) begun in one run
MaxCalls == 2

-----------------------------------------------------------------------------
(* Helpers *)

Min(a, b) == IF a < b THEN a ELSE b
Max(a, b) == IF a > b THEN a ELSE b

\* Python's seq[lo:hi] on 0-based indices, clipped to the sequence
Slice(s, lo, hi) ==
    LET h == Min(hi, Len(s))
    IN  IF lo >= h THEN <<>> ELSE [k \in 1..(h - lo) |-> s[lo + k]]

RECURSIVE SeqSum(_)
SeqSum(s) == IF s = <<>> THEN 0 ELSE Head(s) + SeqSum(Tail(s))

-----------------------------------------------------------------------------
(* InteractionChunker *)

\* A message content is abstracted to the set of classifier patterns that occur
\* in its lower-cased text: that set is all _classify_semantic_type reads.
\* (A pattern completed across the " " that joins two messages is not modelled.)
SemanticTypes == <<"question", "explanation", "correction", "task">>

semantic_patterns(t) ==
    CASE t = "question"    -> {"?", "how", "what", "why", "can you", "help"}
      [] t = "explanation" -> {"because", "since", "the reason", "as a result"}
      [] t = "correction"  -> {"no", "actually", "that's wrong", "not exactly"}
      [] t = "task"        -> {"do this", "create", "write", "build", "implement"}

\* the texts tried: no pattern at all, one explanation pattern, one task pattern
ChunkContents == { {}, {"because"}, {"create"} }

ChunkMessage(c) == [role |-> "user", content |-> c]

\* " ".join(content of m for m in msgs).lower(), as the set of patterns in it
JoinedText(msgs) == UNION { msgs[k].content : k \in 1..Len(msgs) }

\* sum(1 for pattern in patterns if pattern in text)
TypeScore(t, text) == Cardinality(semantic_patterns(t) \cap text)

\* max(type_scores, key=type_scores.get): the first key, in declaration order,
\* whose score is the highest
FirstMaxType(text) ==
    LET best == CHOOSE k \in 1..Len(SemanticTypes) :
            /\ \A j \in 1..Len(SemanticTypes) :
                   TypeScore(SemanticTypes[j], text) <= TypeScore(SemanticTypes[k], text)
            /\ \A j \in 1..(k - 1) :
                   TypeScore(SemanticTypes[j], text) < TypeScore(SemanticTypes[k], text)
    IN  SemanticTypes[best]

_classify_semantic_type(msgs) ==
    IF msgs = <<>> THEN "task" ELSE FirstMaxType(JoinedText(msgs))

\* a variant of the scan: the chunk ends one message before the shift
RECURSIVE BoundaryScan_before_shift(_, _, _, _, _, _, _)
BoundaryScan_before_shift(msgs, start_idx, current_type, j, stop, size, minsz) ==
    IF j >= stop THEN size
    ELSE IF _classify_semantic_type(Slice(msgs, j, j + 1)) # current_type
         THEN IF j - start_idx - 1 >= minsz
              THEN j - start_idx - 1
              ELSE BoundaryScan_before_shift(msgs, start_idx, current_type, j + 1, stop,
                                             j - start_idx - 1, minsz)
         ELSE BoundaryScan_before_shift(msgs, start_idx, current_type, j + 1, stop,
                                        size, minsz)

\* the for loop of _determine_chunk_size, from index j with the size so far;
\* stop is min(start_idx + size, len(messages)) as evaluated on loop entry
RECURSIVE BoundaryScan(_, _, _, _, _, _, _)
BoundaryScan(msgs, start_idx, current_type, j, stop, size, minsz) ==
    IF j >= stop THEN size
    ELSE IF _classify_semantic_type(Slice(msgs, j, j + 1)) # current_type
         THEN IF j - start_idx >= minsz
              THEN j - start_idx
              ELSE BoundaryScan(msgs, start_idx, current_type, j + 1, stop,
                                j - start_idx, minsz)
         ELSE BoundaryScan(msgs, start_idx, current_type, j + 1, stop, size, minsz)

_determine_chunk_size(msgs, start_idx, minsz, maxsz) ==
    LET remaining == Len(msgs) - start_idx
        size      == Min(maxsz, Max(minsz, remaining))
    IN  IF start_idx + size < Len(msgs)
        THEN BoundaryScan(msgs, start_idx,
                          _classify_semantic_type(Slice(msgs, start_idx, start_idx + 1)),
                          start_idx + 1, Min(start_idx + size, Len(msgs)), size, minsz)
        ELSE size

\* importance = 0.5 + ((total - idx) / total) * 0.5, kept exact as the fraction
\* num / den with den = 2 * total
_calculate_importance(idx, total) ==
    [num |-> total + (total - idx), den |-> 2 * total]

\* a / b <= c / d for fractions with positive denominators
FracLeq(a, b) == a.num * b.den <= b.num * a.den

InteractionChunk(n, start, size, msgs, minsz, maxsz) ==
    [chunk_id      |-> n,
     start_idx     |-> start,
     end_idx       |-> start + size,
     messages      |-> Slice(msgs, start, start + size),
     semantic_type |-> _classify_semantic_type(Slice(msgs, start, start + size)),
     importance    |-> _calculate_importance(start, Len(msgs))]

\* one iteration of `while i < len(messages)`
ChunkStep ==
    /\ cpc = "loop"
    /\ i < Len(messages)
    /\ \E chunk_size \in {_determine_chunk_size(messages, i, min_chunk_size,
                                                   max_chunk_size)} :
           /\ chunks' = Append(chunks,
                   InteractionChunk(Len(chunks), i, chunk_size, messages,
                                    min_chunk_size, max_chunk_size))
           /\ i' = i + chunk_size
    /\ UNCHANGED <<messages, min_chunk_size, max_chunk_size, cpc>>
    /\ UNCHANGED <<reflVars, memVars, obsVars, evalVars>>

\* the loop condition fails: return chunks
ChunkReturn ==
    /\ cpc = "loop"
    /\ i >= Len(messages)
    /\ cpc' = "done"
    /\ UNCHANGED <<messages, min_chunk_size, max_chunk_size, i, chunks>>
    /\ UNCHANGED <<reflVars, memVars, obsVars, evalVars>>

-----------------------------------------------------------------------------
(* IPAEvaluator *)

\* floats are kept exact, as fractions num / den in lowest terms (num >= 0, den > 0)
RECURSIVE GCD(_, _)
GCD(a, b) == IF b = 0 THEN a ELSE GCD(b, a % b)

Frac(n, d) == LET g == GCD(n, d) IN [num |-> n \div g, den |-> d \div g]
FracAdd(a, b) == Frac(a.num * b.den + b.num * a.den, a.den * b.den)
FracMul(a, b) == Frac(a.num * b.num, a.den * b.den)
\* a / b for b > 0
FracDiv(a, b) == Frac(a.num * b.den, a.den * b.num)
FracEq(a, b) == a.num * b.den = b.num * a.den

\* sum(f(x) for x in seq), on the sequence of the values
RECURSIVE FracSum(_)
FracSum(fs) == IF fs = <<>> THEN Frac(0, 1) ELSE FracAdd(Head(fs), FracSum(Tail(fs)))

\* A text is a sequence of symbols: the blank " " and whole words, standing for
\* the characters of the string.  str.lower() maps a capitalised word to its
\* lower-case form.
LowerSym(c) ==
    CASE c = "Family" -> "family"
      [] c = "No"     -> "no"
      [] OTHER        -> c

Lower(text) == [k \in 1..Len(text) |-> LowerSym(text[k])]

\* `a in b` on strings
IsInfix(a, b) ==
    \E p \in 0..(Len(b) - Len(a)) : \A k \in 1..Len(a) : b[p + k] = a[k]

\* set(text.split()): the maximal runs of symbols other than the blank
SplitWords(text) ==
    { SubSeq(text, pq[1], pq[2]) :
          pq \in { x \in (1..Len(text)) \X (1..Len(text)) :
                      /\ x[1] <= x[2]
                      /\ \A k \in x[1]..x[2] : text[k] # " "
                      /\ x[1] = 1 \/ text[x[1] - 1] = " "
                      /\ x[2] = Len(text) \/ text[x[2] + 1] = " " } }

\* " ".join(str(m.get("content", "")) for m in msgs)
RECURSIVE JoinContents(_)
JoinContents(msgs) ==
    IF msgs = <<>> THEN <<>>
    ELSE IF Len(msgs) = 1 THEN msgs[1].text
         ELSE msgs[1].text \o <<" ">> \o JoinContents(Tail(msgs))

\* the classifier patterns that occur in a text
PatternsIn(text) ==
    { LowerSym(text[k]) : k \in 1..Len(text) }
        \cap UNION { semantic_patterns(SemanticTypes[k]) : k \in 1..Len(SemanticTypes) }

\* the message contents tried as evaluate_thread input
EvalTexts ==
    { <<>>, <<"create">>, <<"Family">>, <<"because", " ", "family">> }

\* a message of the evaluated thread: `content` as the chunker reads it (the
\* patterns in it) and `text` as the evaluator reads it
EvalMessage(text) == [role |-> "user", content |-> PatternsIn(text), text |-> text]

\* what self.paom.get_context(thread_id) may return: the sentinel or a rendering
PaomContexts ==
    { <<"No", " ", "observations", " ", "yet.">>,
      <<"create", " ", "family">> }

\* a variant of the measure: without a memory the chunk is compared with an
\* empty context instead of taking the mock value
_measure_reconstruction_quality_no_mock(chunk, pm) ==
    LET paom_context == IF pm = <<>> THEN <<>> ELSE pm[1]
        chunk_text   == JoinContents(chunk.messages)
    IN  IF IsInfix(chunk_text, paom_context)
        THEN Frac(1, 1)
        ELSE LET chunk_words   == SplitWords(Lower(chunk_text))
                 context_words == SplitWords(Lower(paom_context))
                 overlap == Frac(Cardinality(chunk_words \cap context_words),
                                 Max(Cardinality(chunk_words), 1))
             IN  FracMul(overlap, Frac(9, 10))

\* a variant of the measure: the word overlap is returned unscaled
_measure_reconstruction_quality_unscaled(chunk, pm) ==
    IF pm = <<>>
    THEN FracAdd(Frac(17, 20), FracMul(chunk.importance, Frac(1, 10)))
    ELSE LET paom_context == pm[1]
             chunk_text   == JoinContents(chunk.messages)
         IN  IF IsInfix(chunk_text, paom_context)
             THEN Frac(1, 1)
             ELSE LET chunk_words   == SplitWords(Lower(chunk_text))
                      context_words == SplitWords(Lower(paom_context))
                  IN  Frac(Cardinality(chunk_words \cap context_words),
                           Max(Cardinality(chunk_words), 1))

\* IPAEvaluator._measure_reconstruction_quality; paom is <<>> for None
_measure_reconstruction_quality(chunk, pm) ==
    IF pm = <<>>
    THEN FracAdd(Frac(17, 20), FracMul(chunk.importance, Frac(1, 10)))
    ELSE LET paom_context == pm[1]
             chunk_text   == JoinContents(chunk.messages)
         IN  IF IsInfix(chunk_text, paom_context)
             THEN Frac(1, 1)
             ELSE LET chunk_words   == SplitWords(Lower(chunk_text))
                      context_words == SplitWords(Lower(paom_context))
                      overlap == Frac(Cardinality(chunk_words \cap context_words),
                                      Max(Cardinality(chunk_words), 1))
                  IN  FracMul(overlap, Frac(9, 10))

\* IPAEvaluator._measure_temporal_relevance
_measure_temporal_relevance(chunk) ==
    CASE chunk.semantic_type = "task"        -> Frac(1, 1)
      [] chunk.semantic_type = "correction"  -> Frac(9, 10)
      [] chunk.semantic_type = "explanation" -> Frac(7, 10)
      [] chunk.semantic_type = "question"    -> Frac(1, 2)
      [] OTHER                               -> Frac(7, 10)

\* a variant of _evaluate_chunk: the credit is importance plus quality
_evaluate_chunk_additive(chunk, pm) ==
    LET reconstruction_quality == _measure_reconstruction_quality(chunk, pm)
        temporal_relevance     == _measure_temporal_relevance(chunk)
        credit_assigned        == FracAdd(chunk.importance, reconstruction_quality)
    IN  [chunk_id               |-> chunk.chunk_id,
         credit_assigned        |-> credit_assigned,
         reconstruction_quality |-> reconstruction_quality,
         temporal_relevance     |-> temporal_relevance,
         overall_score          |->
             FracAdd(FracAdd(FracMul(credit_assigned, Frac(1, 2)),
                             FracMul(temporal_relevance, Frac(3, 10))),
                     FracMul(reconstruction_quality, Frac(1, 5)))]

\* IPAEvaluator._evaluate_chunk
_evaluate_chunk(chunk, pm) ==
    LET reconstruction_quality == _measure_reconstruction_quality(chunk, pm)
        temporal_relevance     == _measure_temporal_relevance(chunk)
        credit_assigned        == FracMul(chunk.importance, reconstruction_quality)
    IN  [chunk_id               |-> chunk.chunk_id,
         credit_assigned        |-> credit_assigned,
         reconstruction_quality |-> reconstruction_quality,
         temporal_relevance     |-> temporal_relevance,
         overall_score          |->
             FracAdd(FracAdd(FracMul(credit_assigned, Frac(1, 2)),
                             FracMul(temporal_relevance, Frac(3, 10))),
                     FracMul(reconstruction_quality, Frac(1, 5)))]

\* a variant of the thread score: the plain mean of the credits
_calculate_overall_score_mean(results, cs) ==
    IF results = <<>> THEN Frac(0, 1)
    ELSE LET total_credit == FracSum([k \in 1..Len(results) |-> results[k].credit_assigned])
         IN  FracMul(FracDiv(total_credit, Frac(Len(results), 1)), Frac(100, 1))

\* IPAEvaluator._calculate_overall_score
_calculate_overall_score(results, cs) ==
    IF results = <<>> THEN Frac(0, 1)
    ELSE LET total_credit     == FracSum([k \in 1..Len(results) |-> results[k].credit_assigned])
             total_importance == FracSum([k \in 1..Len(cs) |-> cs[k].importance])
         IN  IF total_importance.num > 0
             THEN FracMul(FracDiv(total_credit, total_importance), Frac(100, 1))
             ELSE Frac(0, 1)

\* evaluate_thread: one iteration of `for chunk in chunks`, once chunk() has returned
EvaluateChunk ==
    /\ epc = "run"
    /\ cpc = "done"
    /\ Len(chunk_results) < Len(chunks)
    /\ chunk_results' = Append(chunk_results,
                                _evaluate_chunk(chunks[Len(chunk_results) + 1], paom))
    /\ UNCHANGED <<paom, overall_score, epc>>
    /\ UNCHANGED <<chunkVars, reflVars, obsVars, memVars>>

\* evaluate_thread: the loop is over; compute the thread score and return
EvaluateReturn ==
    /\ epc = "run"
    /\ cpc = "done"
    /\ Len(chunk_results) = Len(chunks)
    /\ overall_score' = _calculate_overall_score(chunk_results, chunks)
    /\ epc' = "done"
    /\ UNCHANGED <<paom, chunk_results>>
    /\ UNCHANGED <<chunkVars, reflVars, obsVars, memVars>>

-----------------------------------------------------------------------------
(* Observations, token counter, Observer and Reflector *)

\* Optional[str] fields: None is kept apart from the empty string
None == "<None>"
Truthy(x) == x # None /\ x # ""
\* the assignment without the `or`: the new value always wins
PyOr_always_new(a, b) == a

\* Python's `a or b`
PyOr(a, b) == IF Truthy(a) THEN a ELSE b

PriorityLevel == {"RED", "YELLOW", "GREEN"}

\* datetime values: a calendar day and the minute of that day
Time(d, m) == [day |-> d, minute |-> m]
T0 == Time(1, 570)
T1 == Time(1, 605)
T2 == Time(2, 480)
TimeLeq(a, b) == a.day < b.day \/ (a.day = b.day /\ a.minute <= b.minute)

Observation(ts, prio, text) == [timestamp |-> ts, priority |-> prio, content |-> text]

ObservationalMemoryRecord(obs) ==
    [observations |-> obs, current_task |-> None, suggested_response |-> None]

\* TokenCounter.count: a length estimate, monotonic in the length of the text
count(text) == Len(text) \div 4

\* TokenCounter.count_observations: the sum over the observations' contents
count_observations(obs) == SeqSum([k \in 1..Len(obs) |-> count(obs[k].content)])

\* a variant of the extraction that looks at messages of every role
RECURSIVE _simple_extraction_any_role(_)
_simple_extraction_any_role(msgs) ==
    IF msgs = <<>> THEN <<>>
    ELSE LET msg  == Head(msgs)
             rest == _simple_extraction_any_role(Tail(msgs))
         IN  IF "kids" \in msg.content \/ "children" \in msg.content
             THEN <<Observation(msg.timestamp, "RED",
                                "User mentioned family (children)")>> \o rest
             ELSE IF "work" \in msg.content \/ "job" \in msg.content
                  THEN <<Observation(msg.timestamp, "YELLOW",
                                     "User discussed work situation")>> \o rest
                  ELSE rest

\* ObserverAgent._simple_extraction; a message content is the set of keywords
\* that occur in its lower-cased text
RECURSIVE _simple_extraction(_)
_simple_extraction(msgs) ==
    IF msgs = <<>> THEN <<>>
    ELSE LET msg  == Head(msgs)
             rest == _simple_extraction(Tail(msgs))
         IN  IF msg.role = "user"
             THEN IF "kids" \in msg.content \/ "children" \in msg.content
                  THEN <<Observation(msg.timestamp, "RED",
                                     "User mentioned family (children)")>> \o rest
                  ELSE IF "work" \in msg.content \/ "job" \in msg.content
                       THEN <<Observation(msg.timestamp, "YELLOW",
                                          "User discussed work situation")>> \o rest
                       ELSE rest
             ELSE rest

\* a variant of the Observer that also reports a current task
extract_observations_task(msgs, existing_observations) ==
    [observations |-> _simple_extraction(msgs),
     current_task |-> "reply to the user", suggested |-> ""]

\* ObserverAgent.extract_observations: (observations, "", "")
extract_observations(msgs, existing_observations) ==
    [observations |-> _simple_extraction(msgs), current_task |-> "", suggested |-> ""]

\* a filter that keeps the medium priority only
\* the keyword sets of the message contents tried as Observer input
ObserverContents ==
    { {}, {"kids"}, {"children"}, {"work"}, {"job"}, {"kids", "work"}, {"children", "job"} }

\* the messages tried as Observer input (each carries its own timestamp)
ObserverMsgPool ==
    { [role |-> r, content |-> c, timestamp |-> ts] :
          r \in {"user", "assistant", "system"}, c \in ObserverContents, ts \in {T0, T2} }

\* one call of extract_observations
Observe ==
    /\ opc = "ready"
    /\ oout' = extract_observations(omsgs, "")
    /\ opc' = "done"
    /\ UNCHANGED omsgs
    /\ UNCHANGED <<chunkVars, reflVars, evalVars, memVars>>

\* a filter that keeps the medium priority only
IsKept_yellow_only(o) == o.priority = "YELLOW"

\* `obs.priority in [PriorityLevel.RED, PriorityLevel.YELLOW]`
IsKept(o) == o.priority \in {"RED", "YELLOW"}

\* a variant of the condensation that keeps every observation
_simple_condensation_keep_all(observations) ==
    IF observations # <<>>
    THEN Append(observations,
                Observation(observations[1].timestamp, "RED",
                    "Memory consolidated: " \o ToString(Len(observations))
                        \o " key observations preserved"))
    ELSE observations

\* a variant of the condensation whose summary counts the input observations
_simple_condensation_count_input(observations) ==
    LET condensed == SelectSeq(observations, IsKept)
    IN  IF condensed # <<>>
        THEN Append(condensed,
                    Observation(observations[1].timestamp, "RED",
                        "Memory consolidated: " \o ToString(Len(observations))
                            \o " key observations preserved"))
        ELSE condensed

\* ReflectorAgent._simple_condensation
_simple_condensation(observations) ==
    LET condensed == SelectSeq(observations, IsKept)
    IN  IF condensed # <<>>
        THEN Append(condensed,
                    Observation(observations[1].timestamp, "RED",
                        "Memory consolidated: " \o ToString(Len(condensed))
                            \o " key observations preserved"))
        ELSE condensed

\* ReflectorAgent.reflect
reflect(observations) == _simple_condensation(observations)


\* the observations tried as Reflector input
ObsPool ==
    { Observation(T0, "RED",    "User mentioned family (children)"),
      Observation(T0, "GREEN",  "User may like tea"),
      Observation(T1, "RED",    "User is allergic to nuts"),
      Observation(T2, "YELLOW", "User discussed work situation"),
      Observation(T2, "GREEN",  "User may like tea") }

\* ordered by anchor timestamp, as the record keeps them
IsTimeOrdered(obs) ==
    \A k \in 1..(Len(obs) - 1) : TimeLeq(obs[k].timestamp, obs[k + 1].timestamp)

BoundedSeqs(S, n) == UNION { [1..k -> S] : k \in 0..n }

Reflect ==
    /\ rpc = "ready"
    /\ rout' = reflect(rin)
    /\ rpc' = "done"
    /\ rounds' = 1
    /\ UNCHANGED rin
    /\ UNCHANGED <<chunkVars, memVars, obsVars, evalVars>>

\* reflect() applied once more, to the list the last reflection returned
ReflectAgain ==
    /\ rpc \in {"done", "again"}
    /\ rounds < MaxRounds
    /\ rout' = reflect(rout)
    /\ rpc' = "again"
    /\ rounds' = rounds + 1
    /\ UNCHANGED rin
    /\ UNCHANGED <<chunkVars, memVars, obsVars, evalVars>>

-----------------------------------------------------------------------------
(* ObservationalMemory: the controller *)

Threads == {"a", "b"}

\* the messages tried as process_messages input
MsgPool ==
    { [role |-> "user",      content |-> {"kids"}, timestamp |-> T1],
      [role |-> "user",      content |-> {"work"}, timestamp |-> T2],
      [role |-> "assistant", content |-> {"kids"}, timestamp |-> T1],
      [role |-> "user",      content |-> {},       timestamp |-> T2] }

\* the configurations tried (thresholds in token-equivalents)
Configs == { [observation_threshold |-> 8, reflection_threshold |-> 15] }

\* records the external store may hold for a thread when the controller starts
SeedRecords ==
    { ObservationalMemoryRecord(<<>>),
      [observations       |-> << Observation(T0, "GREEN", "User may like tea"),
                                 Observation(T0, "RED", "User mentioned family (children)") >>,
       current_task       |-> "write the report",
       suggested_response |-> None],
      [observations       |-> << Observation(T0, "YELLOW", "User discussed work situation") >>,
       current_task       |-> None,
       suggested_response |-> "ask about the deadline"],
      [observations       |-> << Observation(T2, "GREEN", "User may like tea") >>,
       current_task       |-> "write the report",
       suggested_response |-> "ask about the deadline"] }

\* the stored record of a thread as an optional value: <<>> or <<record>>
StoredOpt(st, t) == IF t \in DOMAIN st THEN <<st[t]>> ELSE <<>>

\* get_observation_record: the storage lookup.  The result is the reference the
\* caller works on: "stored" (the live stored object) or "none" (None).
get_observation_record(st, t) == IF t \in DOMAIN st THEN "stored" ELSE "none"

Pad2(n) == IF n < 10 THEN "0" \o ToString(n) ELSE ToString(n)
\* obs.timestamp.date().isoformat()
DateKey(ts) == "2026-01-" \o Pad2(ts.day)
\* obs.timestamp.strftime("%H:%M")
TimeStr(ts) == Pad2(ts.minute \div 60) \o ":" \o Pad2(ts.minute % 60)

\* "\n".join(lines)
RECURSIVE JoinLines(_)
JoinLines(lines) ==
    IF lines = <<>> THEN ""
    ELSE IF Len(lines) = 1 THEN lines[1]
         ELSE lines[1] \o "\n" \o JoinLines(Tail(lines))

ObsLine(o) == "* " \o o.priority \o " (" \o TimeStr(o.timestamp) \o ") " \o o.content

\* the lines of the date groups whose day is at least d, in ascending day order
RECURSIVE GroupLines(_, _)
GroupLines(obs, days) ==
    IF days = {} THEN <<>>
    ELSE LET d     == CHOOSE x \in days : \A y \in days : x <= y
             OnDay(o) == o.timestamp.day = d
             group == SelectSeq(obs, OnDay)
         IN  <<"Date: " \o DateKey(group[1].timestamp)>>
                 \o [k \in 1..Len(group) |-> ObsLine(group[k])]
                 \o GroupLines(obs, days \ {d})

\* ObservationalMemory._format_observations
_format_observations(obs) ==
    IF obs = <<>> THEN ""
    ELSE JoinLines(GroupLines(obs, { obs[k].timestamp.day : k \in 1..Len(obs) }))

\* get_context with the current-task block put before the suggested response
ContextOf_task_first(rec) ==
    _format_observations(rec.observations)
        \o (IF Truthy(rec.current_task)
            THEN "\n\n<Current Task>\n" \o rec.current_task \o "\n" ELSE "")
        \o (IF Truthy(rec.suggested_response)
            THEN "\n\n<Suggested Response>\n" \o rec.suggested_response \o "\n" ELSE "")

\* the whole of get_context on a record
ContextOf(rec) ==
    _format_observations(rec.observations)
        \o (IF Truthy(rec.suggested_response)
            THEN "\n\n<Suggested Response>\n" \o rec.suggested_response \o "\n" ELSE "")
        \o (IF Truthy(rec.current_task)
            THEN "\n\n<Current Task>\n" \o rec.current_task \o "\n" ELSE "")

\* the whole of get_stats on a record
StatsOf(rec) ==
    [keys |-> {"total_observations", "last_observed_at", "has_current_task"},
     total_observations |-> Len(rec.observations),
     has_current_task |-> Truthy(rec.current_task)]

\* get_context(thread_id), evaluated in one piece on the store
get_context(st, t) ==
    IF get_observation_record(st, t) = "none" THEN "No observations yet."
    ELSE ContextOf(st[t])

\* get_stats(thread_id), evaluated in one piece on the store
get_stats(st, t) ==
    IF get_observation_record(st, t) = "none"
    THEN [keys |-> {"total_observations"}, total_observations |-> 0,
          has_current_task |-> FALSE]
    ELSE StatsOf(st[t])

\* `observation_count > self.config.reflection_threshold`, with >= for >
NeedsReflection_ge(combined, cfg) ==
    count_observations(combined) >= cfg.reflection_threshold

\* `observation_count > self.config.reflection_threshold`
NeedsReflection(combined, cfg) ==
    count_observations(combined) > cfg.reflection_threshold

\* `record.<field> = val` when every stored record shares one object
StoreAfterSet_shared(st, ref, t, field, val) ==
    IF ref = "stored" THEN [s \in DOMAIN st |-> [st[s] EXCEPT ![field] = val]] ELSE st

\* `record.<field> = val`: the store after the assignment; it changes when
\* `record` is the live stored object
StoreAfterSet(st, ref, t, field, val) ==
    IF ref = "stored" THEN [st EXCEPT ![t][field] = val] ELSE st

\* `record.<field> = val`: the call's fresh record after the assignment
LocalAfterSet(loc, ref, t, field, val) ==
    IF ref = "new" THEN [loc EXCEPT ![t][field] = val] ELSE loc

\* the call's `record`
Rec(t) == IF wref[t] = "stored" THEN storage[t] ELSE wrec[t]

PMpcs == {"combined", "obs_written", "task_written"}
FRpcs == {"fr_reflected"}

NoResult == [kind |-> "none", record |-> ObservationalMemoryRecord(<<>>), text |-> ""]
RecordResult(rec) == [kind |-> "record", record |-> rec, text |-> ""]
TextResult(k, txt) == [kind |-> k, record |-> ObservationalMemoryRecord(<<>>), text |-> txt]

IdleReader ==
    [pc |-> "idle", op |-> "", thread |-> "", text |-> "",
     stats |-> [keys |-> {}, total_observations |-> 0, has_current_task |-> FALSE],
     versions |-> {}]

\* the record a process_messages call leaves: lines 88-90 applied to rec
PostProcess(rec, combined, task, sugg) ==
    [observations       |-> combined,
     current_task       |-> PyOr(task, rec.current_task),
     suggested_response |-> PyOr(sugg, rec.suggested_response)]

\* the record a force_reflection call leaves: line 166 applied to rec
PostReflect(rec, reflected) == [rec EXCEPT !.observations = reflected]

\* the whole-record versions of thread t's stored record that exist right now:
\* the stored record, or the in-flight call's pre- and post-update records
CurrentVersions(t) ==
    IF wref[t] = "stored" /\ wpc[t] \in (PMpcs \cup FRpcs)
    THEN { wpre[t][1],
           IF wpc[t] \in FRpcs
           THEN PostReflect(wpre[t][1], wcombined[t])
           ELSE PostProcess(wpre[t][1], wcombined[t], wtask[t], wsugg[t]) }
    ELSE {storage[t]}

\* a reader in the middle of reading thread t learns of a new version
NoteVersion(rd, t, v) ==
    IF rd.pc \notin {"idle", "done"} /\ rd.thread = t
    THEN [rd EXCEPT !.versions = @ \cup {v}] ELSE rd

\* ---- process_messages(thread_id, messages)

\* the locals of a call that is over (returned, raised or cancelled)
DropLocals(t) ==
    /\ wrec' = [wrec EXCEPT ![t] = ObservationalMemoryRecord(<<>>)]
    /\ wref' = [wref EXCEPT ![t] = "none"]
    /\ wnew' = [wnew EXCEPT ![t] = <<>>]
    /\ wtask' = [wtask EXCEPT ![t] = ""]
    /\ wsugg' = [wsugg EXCEPT ![t] = ""]
    /\ wcombined' = [wcombined EXCEPT ![t] = <<>>]
    /\ wreflected' = [wreflected EXCEPT ![t] = FALSE]
    /\ wpre' = [wpre EXCEPT ![t] = <<>>]

\* lines 65-85: fetch or create the record, format it, run the Observer, combine,
\* and reflect when the combined set is over the threshold (all on locals)
PM_Begin(t, msgs) ==
    /\ wpc[t] = "idle"
    /\ calls < MaxCalls
    /\ LET ref      == get_observation_record(storage, t)
           record   == IF ref = "none" THEN ObservationalMemoryRecord(<<>>) ELSE storage[t]
           ext      == extract_observations(msgs, _format_observations(record.observations))
           combined == record.observations \o ext.observations
           needs    == NeedsReflection(combined, config)
           final    == IF needs THEN reflect(combined) ELSE combined
       IN  /\ wref' = [wref EXCEPT ![t] = IF ref = "none" THEN "new" ELSE ref]
           /\ wrec' = [wrec EXCEPT ![t] = ObservationalMemoryRecord(<<>>)]
           /\ wnew' = [wnew EXCEPT ![t] = ext.observations]
           /\ wtask' = [wtask EXCEPT ![t] = ext.current_task]
           /\ wsugg' = [wsugg EXCEPT ![t] = ext.suggested]
           /\ wcombined' = [wcombined EXCEPT ![t] = final]
           /\ wreflected' = [wreflected EXCEPT ![t] = needs]
           /\ reader' = IF ref = "stored"
                        THEN NoteVersion(reader, t,
                                 PostProcess(record, final, ext.current_task, ext.suggested))
                        ELSE reader
    /\ wpre' = [wpre EXCEPT ![t] = StoredOpt(storage, t)]
    /\ wpc' = [wpc EXCEPT ![t] = "combined"]
    /\ calls' = calls + 1
    /\ UNCHANGED <<storage, config, wresult>>
    /\ UNCHANGED <<chunkVars, reflVars, obsVars, evalVars>>

\* line 88: record.observations = combined
PM_WriteObs(t) ==
    /\ wpc[t] = "combined"
    /\ storage' = StoreAfterSet(storage, wref[t], t, "observations", wcombined[t])
    /\ wrec' = LocalAfterSet(wrec, wref[t], t, "observations", wcombined[t])
    /\ wpc' = [wpc EXCEPT ![t] = "obs_written"]
    /\ UNCHANGED <<config, wref, wnew, wtask, wsugg, wcombined, wreflected, wpre,
                   wresult, calls, reader>>
    /\ UNCHANGED <<chunkVars, reflVars, obsVars, evalVars>>

\* line 89: record.current_task = current_task or record.current_task
PM_WriteTask(t) ==
    /\ wpc[t] = "obs_written"
    /\ LET val == PyOr(wtask[t], Rec(t).current_task)
       IN  /\ storage' = StoreAfterSet(storage, wref[t], t, "current_task", val)
           /\ wrec' = LocalAfterSet(wrec, wref[t], t, "current_task", val)
    /\ wpc' = [wpc EXCEPT ![t] = "task_written"]
    /\ UNCHANGED <<config, wref, wnew, wtask, wsugg, wcombined, wreflected, wpre,
                   wresult, calls, reader>>
    /\ UNCHANGED <<chunkVars, reflVars, obsVars, evalVars>>

\* lines 90-92: record.suggested_response = suggested or record.suggested_response;
\* return record
PM_Return(t) ==
    /\ wpc[t] = "task_written"
    /\ LET val == PyOr(wsugg[t], Rec(t).suggested_response)
       IN  /\ storage' = StoreAfterSet(storage, wref[t], t, "suggested_response", val)
           /\ wresult' = [wresult EXCEPT ![t] =
                             RecordResult([Rec(t) EXCEPT !.suggested_response = val])]
    /\ wpc' = [wpc EXCEPT ![t] = "idle"]
    /\ DropLocals(t)
    /\ UNCHANGED <<config, calls, reader>>
    /\ UNCHANGED <<chunkVars, reflVars, obsVars, evalVars>>

\* the call is cancelled (aborted) before it returns: its locals are dropped
PM_Cancel(t) ==
    /\ wpc[t] \in PMpcs
    /\ wresult' = [wresult EXCEPT ![t] = TextResult("cancelled", "")]
    /\ wpc' = [wpc EXCEPT ![t] = "idle"]
    /\ DropLocals(t)
    /\ UNCHANGED <<storage, config, calls, reader>>
    /\ UNCHANGED <<chunkVars, reflVars, obsVars, evalVars>>

\* ---- force_reflection(thread_id)

\* the names bound in force_reflection's scope when line 167 is evaluated
force_reflection_names == {"self", "thread_id", "record", "reflected"}

\* line 167: the f-string reads `recorded`
force_reflection_return ==
    IF "recorded" \in force_reflection_names
    THEN TextResult("text", "Reflection complete.")
    ELSE TextResult("raised", "NameError: name 'recorded' is not defined")

\* lines 158-160: no record
FR_NoRecord(t) ==
    /\ wpc[t] = "idle"
    /\ calls < MaxCalls
    /\ get_observation_record(storage, t) = "none"
    /\ wresult' = [wresult EXCEPT ![t] = TextResult("text", "No observations to reflect.")]
    /\ calls' = calls + 1
    /\ UNCHANGED <<storage, config, wpc, wrec, wref, wnew, wtask, wsugg, wcombined,
                   wreflected, wpre, reader>>
    /\ UNCHANGED <<chunkVars, reflVars, obsVars, evalVars>>

\* lines 158-163: the record exists; run the Reflector on its observations
FR_Reflect(t) ==
    /\ wpc[t] = "idle"
    /\ calls < MaxCalls
    /\ get_observation_record(storage, t) = "stored"
    /\ LET reflected == reflect(storage[t].observations)
       IN  /\ wcombined' = [wcombined EXCEPT ![t] = reflected]
           /\ reader' = NoteVersion(reader, t, PostReflect(storage[t], reflected))
    /\ wref' = [wref EXCEPT ![t] = "stored"]
    /\ wpre' = [wpre EXCEPT ![t] = StoredOpt(storage, t)]
    /\ wreflected' = [wreflected EXCEPT ![t] = TRUE]
    /\ wpc' = [wpc EXCEPT ![t] = "fr_reflected"]
    /\ calls' = calls + 1
    /\ UNCHANGED <<storage, config, wrec, wnew, wtask, wsugg, wresult>>
    /\ UNCHANGED <<chunkVars, reflVars, obsVars, evalVars>>

\* lines 166-167: record.observations = reflected; return the message
FR_Return(t) ==
    /\ wpc[t] = "fr_reflected"
    /\ storage' = StoreAfterSet(storage, wref[t], t, "observations", wcombined[t])
    /\ wresult' = [wresult EXCEPT ![t] = force_reflection_return]
    /\ wpc' = [wpc EXCEPT ![t] = "idle"]
    /\ DropLocals(t)
    /\ UNCHANGED <<config, calls, reader>>
    /\ UNCHANGED <<chunkVars, reflVars, obsVars, evalVars>>

\* ---- get_context(thread_id) and get_stats(thread_id): the reader

\* lines 103-105 / 146-148: fetch the record; return at once when there is none
R_Begin(op, t) ==
    /\ reader.pc = "idle"
    /\ IF get_observation_record(storage, t) = "none"
       THEN reader' = [IdleReader EXCEPT
                          !.pc = "done", !.op = op, !.thread = t,
                          !.text = IF op = "get_context" THEN "No observations yet." ELSE "",
                          !.stats = IF op = "get_stats"
                                    THEN [keys |-> {"total_observations"},
                                          total_observations |-> 0,
                                          has_current_task |-> FALSE]
                                    ELSE IdleReader.stats]
       ELSE reader' = [IdleReader EXCEPT
                          !.pc = "obs", !.op = op, !.thread = t,
                          !.versions = CurrentVersions(t)]
    /\ UNCHANGED <<storage, config, wpc, wrec, wref, wnew, wtask, wsugg, wcombined,
                   wreflected, wpre, wresult, calls>>
    /\ UNCHANGED <<chunkVars, reflVars, obsVars, evalVars>>

\* line 108: context = self._format_observations(record.observations)
GC_ReadObs ==
    /\ reader.pc = "obs" /\ reader.op = "get_context"
    /\ reader' = [reader EXCEPT
                     !.text = _format_observations(storage[reader.thread].observations),
                     !.pc = "sugg"]
    /\ UNCHANGED <<storage, config, wpc, wrec, wref, wnew, wtask, wsugg, wcombined,
                   wreflected, wpre, wresult, calls>>
    /\ UNCHANGED <<chunkVars, reflVars, obsVars, evalVars>>

\* a get_context that uses the suggested response up: it clears the field once read
GC_ReadSugg_consume ==
    /\ reader.pc = "sugg" /\ reader.op = "get_context"
    /\ LET sugg == storage[reader.thread].suggested_response
       IN  reader' = [reader EXCEPT
                         !.text = IF Truthy(sugg)
                                  THEN @ \o "\n\n<Suggested Response>\n" \o sugg \o "\n"
                                  ELSE @,
                         !.pc = "task"]
    /\ storage' = [storage EXCEPT ![reader.thread].suggested_response = None]
    /\ UNCHANGED <<config, wpc, wrec, wref, wnew, wtask, wsugg, wcombined,
                   wreflected, wpre, wresult, calls>>
    /\ UNCHANGED <<chunkVars, reflVars, obsVars, evalVars>>

\* lines 111-112: the suggested-response block
GC_ReadSugg ==
    /\ reader.pc = "sugg" /\ reader.op = "get_context"
    /\ LET sugg == storage[reader.thread].suggested_response
       IN  reader' = [reader EXCEPT
                         !.text = IF Truthy(sugg)
                                  THEN @ \o "\n\n<Suggested Response>\n" \o sugg \o "\n"
                                  ELSE @,
                         !.pc = "task"]
    /\ UNCHANGED <<storage, config, wpc, wrec, wref, wnew, wtask, wsugg, wcombined,
                   wreflected, wpre, wresult, calls>>
    /\ UNCHANGED <<chunkVars, reflVars, obsVars, evalVars>>

\* lines 115-118: the current-task block; return context
GC_ReadTask ==
    /\ reader.pc = "task" /\ reader.op = "get_context"
    /\ LET task == storage[reader.thread].current_task
       IN  reader' = [reader EXCEPT
                         !.text = IF Truthy(task)
                                  THEN @ \o "\n\n<Current Task>\n" \o task \o "\n"
                                  ELSE @,
                         !.pc = "done"]
    /\ UNCHANGED <<storage, config, wpc, wrec, wref, wnew, wtask, wsugg, wcombined,
                   wreflected, wpre, wresult, calls>>
    /\ UNCHANGED <<chunkVars, reflVars, obsVars, evalVars>>

\* line 151: "total_observations": len(record.observations)
GS_ReadObs ==
    /\ reader.pc = "obs" /\ reader.op = "get_stats"
    /\ reader' = [reader EXCEPT
                     !.stats.total_observations = Len(storage[reader.thread].observations),
                     !.pc = "task"]
    /\ UNCHANGED <<storage, config, wpc, wrec, wref, wnew, wtask, wsugg, wcombined,
                   wreflected, wpre, wresult, calls>>
    /\ UNCHANGED <<chunkVars, reflVars, obsVars, evalVars>>

\* lines 152-154: "has_current_task": bool(record.current_task); return the dict
GS_ReadTask ==
    /\ reader.pc = "task" /\ reader.op = "get_stats"
    /\ reader' = [reader EXCEPT
                     !.stats.has_current_task = Truthy(storage[reader.thread].current_task),
                     !.stats.keys = {"total_observations", "last_observed_at",
                                     "has_current_task"},
                     !.pc = "done"]
    /\ UNCHANGED <<storage, config, wpc, wrec, wref, wnew, wtask, wsugg, wcombined,
                   wreflected, wpre, wresult, calls>>
    /\ UNCHANGED <<chunkVars, reflVars, obsVars, evalVars>>

\* the caller has the result; the reader may be used again
R_Return ==
    /\ reader.pc = "done"
    /\ reader' = IdleReader
    /\ UNCHANGED <<storage, config, wpc, wrec, wref, wnew, wtask, wsugg, wcombined,
                   wreflected, wpre, wresult, calls>>
    /\ UNCHANGED <<chunkVars, reflVars, obsVars, evalVars>>

-----------------------------------------------------------------------------
(* Specifications *)

ChunkOff ==
    /\ messages = <<>> /\ min_chunk_size = 1 /\ max_chunk_size = 1
    /\ i = 0 /\ chunks = <<>> /\ cpc = "off"

ReflectOff == rin = <<>> /\ rout = <<>> /\ rpc = "off" /\ rounds = 0

ObserveOff ==
    /\ omsgs = <<>>
    /\ oout = [observations |-> <<>>, current_task |-> "", suggested |-> ""]
    /\ opc = "off"

EvalOff ==
    /\ paom = <<>> /\ chunk_results = <<>> /\ overall_score = Frac(0, 1)
    /\ epc = "off"

MemOff ==
    /\ storage = <<>>
    /\ config \in Configs
    /\ wpc = [t \in Threads |-> "idle"]
    /\ wrec = [t \in Threads |-> ObservationalMemoryRecord(<<>>)]
    /\ wref = [t \in Threads |-> "none"]
    /\ wnew = [t \in Threads |-> <<>>]
    /\ wtask = [t \in Threads |-> ""]
    /\ wsugg = [t \in Threads |-> ""]
    /\ wcombined = [t \in Threads |-> <<>>]
    /\ wreflected = [t \in Threads |-> FALSE]
    /\ wpre = [t \in Threads |-> <<>>]
    /\ wresult = [t \in Threads |-> NoResult]
    /\ calls = 0
    /\ reader = IdleReader

\* the controller after construction; the external store may already hold a
\* record for a thread
Init ==
    /\ ChunkOff
    /\ ReflectOff
    /\ ObserveOff
    /\ EvalOff
    /\ storage \in UNION { [D -> SeedRecords] : D \in SUBSET Threads }
    /\ config \in Configs
    /\ wpc = [t \in Threads |-> "idle"]
    /\ wrec = [t \in Threads |-> ObservationalMemoryRecord(<<>>)]
    /\ wref = [t \in Threads |-> "none"]
    /\ wnew = [t \in Threads |-> <<>>]
    /\ wtask = [t \in Threads |-> ""]
    /\ wsugg = [t \in Threads |-> ""]
    /\ wcombined = [t \in Threads |-> <<>>]
    /\ wreflected = [t \in Threads |-> FALSE]
    /\ wpre = [t \in Threads |-> <<>>]
    /\ wresult = [t \in Threads |-> NoResult]
    /\ calls = 0
    /\ reader = IdleReader

\* the steps of the writer calls on thread t
Writer(t) ==
    \/ \E msgs \in BoundedSeqs(MsgPool, MaxMsgs) : PM_Begin(t, msgs)
    \/ PM_WriteObs(t)
    \/ PM_WriteTask(t)
    \/ PM_Return(t)
    \/ PM_Cancel(t)
    \/ FR_NoRecord(t)
    \/ FR_Reflect(t)
    \/ FR_Return(t)

\* writer calls on every thread id, in any interleaving
Next == \E t \in Threads : Writer(t)

Spec == Init /\ [][Next]_vars

\* one thread id with its writer calls and a concurrent reader call, statement
\* by statement
ConcThreads == {"a"}

InitConc ==
    /\ Init
    /\ DOMAIN storage \subseteq ConcThreads

NextConc ==
    \/ \E t \in ConcThreads : Writer(t)
    \/ \E t \in ConcThreads : \E op \in {"get_context", "get_stats"} : R_Begin(op, t)
    \/ GC_ReadObs
    \/ GC_ReadSugg
    \/ GC_ReadTask
    \/ GS_ReadObs
    \/ GS_ReadTask
    \/ R_Return

SpecConc == InitConc /\ [][NextConc]_vars

\* chunk(messages) for every bounded message sequence and valid configuration
InitChunk ==
    /\ messages \in BoundedSeqs({ ChunkMessage(c) : c \in ChunkContents }, MaxSeqLen)
    /\ max_chunk_size \in 1..MaxChunkSize
    /\ min_chunk_size \in 1..max_chunk_size
    /\ i = 0
    /\ chunks = <<>>
    /\ cpc = "loop"
    /\ ReflectOff
    /\ ObserveOff
    /\ EvalOff
    /\ MemOff

NextChunk == ChunkStep \/ ChunkReturn

SpecChunk == InitChunk /\ [][NextChunk]_vars

\* chunk(messages) as it runs: the loop is sequential code that no other
\* thread holds up, so an iteration that can be taken is taken
SpecChunkLive == InitChunk /\ [][NextChunk]_vars /\ WF_vars(NextChunk)

\* reflect(observations) for every bounded, time-ordered observation list
InitReflect ==
    /\ rin \in { s \in BoundedSeqs(ObsPool, MaxObsLen) : IsTimeOrdered(s) }
    /\ rout = <<>>
    /\ rpc = "ready"
    /\ rounds = 0
    /\ ChunkOff
    /\ ObserveOff
    /\ EvalOff
    /\ MemOff

NextReflect == Reflect \/ ReflectAgain

SpecReflect == InitReflect /\ [][NextReflect]_vars

\* extract_observations(messages) for every bounded message list
InitObserve ==
    /\ omsgs \in BoundedSeqs(ObserverMsgPool, MaxObsMsgs)
    /\ oout = [observations |-> <<>>, current_task |-> "", suggested |-> ""]
    /\ opc = "ready"
    /\ ChunkOff
    /\ ReflectOff
    /\ EvalOff
    /\ MemOff

NextObserve == Observe

SpecObserve == InitObserve /\ [][NextObserve]_vars

\* evaluate_thread(messages) for every bounded message sequence, chunker
\* configuration and memory context; chunk() runs first, loop iteration by loop
\* iteration
InitEval ==
    /\ messages \in BoundedSeqs({ EvalMessage(x) : x \in EvalTexts }, MaxEvalLen)
    /\ max_chunk_size \in 1..MaxChunkSize
    /\ min_chunk_size \in 1..max_chunk_size
    /\ i = 0
    /\ chunks = <<>>
    /\ cpc = "loop"
    /\ paom \in {<<>>} \cup { <<x>> : x \in PaomContexts }
    /\ chunk_results = <<>>
    /\ overall_score = Frac(0, 1)
    /\ epc = "run"
    /\ ReflectOff
    /\ ObserveOff
    /\ MemOff

NextEval == ChunkStep \/ ChunkReturn \/ EvaluateChunk \/ EvaluateReturn

SpecEval == InitEval /\ [][NextEval]_vars

-----------------------------------------------------------------------------
(* Claims about InteractionChunker (SpecChunk) *)

ChunkSize(c) == c.end_idx - c.start_idx

\* C1: the chunks returned by chunk() exactly tile [0, len(messages)): the first
\* starts at 0, each later one starts where the previous one ends, and the last
\* one ends at len(messages); an empty sequence gives no chunk.
C1_ChunksTileMessages ==
    cpc = "done" =>
        /\ (chunks = <<>>) <=> (messages = <<>>)
        /\ chunks # <<>> =>
               /\ chunks[1].start_idx = 0
               /\ chunks[Len(chunks)].end_idx = Len(messages)
        /\ \A k \in 2..Len(chunks) : chunks[k].start_idx = chunks[k - 1].end_idx

\* C2: every chunk returned by chunk(), except possibly the last one, has
\* min_chunk_size <= size <= max_chunk_size.
C2_ChunkSizeWithinBounds ==
    cpc = "done" =>
        \A k \in 1..(Len(chunks) - 1) :
            /\ min_chunk_size <= ChunkSize(chunks[k])
            /\ ChunkSize(chunks[k]) <= max_chunk_size

\* C3: within one call of chunk(), a chunk with a smaller start_idx has an
\* importance less than or equal to that of a chunk with a larger start_idx.
C3_ImportanceGrowsWithRecency ==
    cpc = "done" =>
        \A j \in 1..Len(chunks) : \A k \in 1..Len(chunks) :
            chunks[j].start_idx < chunks[k].start_idx =>
                FracLeq(chunks[j].importance, chunks[k].importance)

\* no keyword pattern of any semantic category occurs in the text of msgs
NoPatternMatches(msgs) ==
    \A k \in 1..Len(SemanticTypes) : TypeScore(SemanticTypes[k], JoinedText(msgs)) = 0

\* C18: _classify_semantic_type returns "task" whenever the message list is
\* empty or no keyword pattern of any semantic category matches its text; here
\* for the message list of every chunk that chunk() classified.
C18_ClassificationDefaultsToTask ==
    \A k \in 1..Len(chunks) :
        (chunks[k].messages = <<>> \/ NoPatternMatches(chunks[k].messages)) =>
            /\ chunks[k].semantic_type = "task"
            /\ _classify_semantic_type(<<>>) = "task"

-----------------------------------------------------------------------------
(* Claims about the controller (Spec, SpecConc) *)

\* C4: a get_context or get_stats call that overlaps a writer call on the same
\* thread returns the rendering of one whole version of the record (the record
\* before the update or the record after it), never a mix of the two.
C4_ReaderSeesWholeRecord ==
    (reader.pc = "done" /\ reader.versions # {}) =>
        /\ reader.op = "get_context" =>
               \E v \in reader.versions : reader.text = ContextOf(v)
        /\ reader.op = "get_stats" =>
               \E v \in reader.versions : reader.stats = StatsOf(v)

\* a get_context call that began before the writer's update and finished between
\* the writer's field assignments, having read the updated observations
C4_Witness ==
    /\ reader.pc = "done"
    /\ reader.op = "get_context"
    /\ reader.thread = "a"
    /\ wpc["a"] = "obs_written"
    /\ Cardinality(reader.versions) = 2
    /\ reader.text = ContextOf(storage["a"])
    /\ reader.text # ContextOf(wpre["a"][1])

\* C5: read-your-writes per thread: after process_messages returns, get_context
\* and get_stats reflect exactly the record it returned, and the next
\* process_messages call on the thread starts from that record.
C5_ReadYourWrites ==
    \A t \in Threads :
        /\ (wpc[t] = "idle" /\ wresult[t].kind = "record") =>
               /\ get_context(storage, t) = ContextOf(wresult[t].record)
               /\ get_stats(storage, t) = StatsOf(wresult[t].record)
        /\ (wpc[t] \in PMpcs /\ wresult[t].kind = "record" /\ ~wreflected[t]) =>
               wcombined[t] = wresult[t].record.observations \o wnew[t]

PreRecord(t) == IF wpre[t] = <<>> THEN ObservationalMemoryRecord(<<>>) ELSE wpre[t][1]

\* C8: a step of a writer call on thread a leaves the stored record, the locals
\* and the last result of every other thread b unchanged, and the record
\* process_messages returns for a is determined by a's own prior record and a's
\* own input.
C8_ThreadsIndependent ==
    [][\A a \in Threads :
          /\ Writer(a) =>
                 \A b \in Threads \ {a} :
                     /\ StoredOpt(storage', b) = StoredOpt(storage, b)
                     /\ wresult'[b] = wresult[b]
                     /\ wpc'[b] = wpc[b]
                     /\ wcombined'[b] = wcombined[b]
          /\ PM_Return(a) =>
                 wresult'[a].record =
                     PostProcess(PreRecord(a), wcombined[a], wtask[a], wsugg[a])]_vars

\* calls on both threads are in flight on stored records, and a's has written
C8_Witness ==
    /\ wpc["a"] = "obs_written"
    /\ wpc["b"] = "combined"
    /\ wref["a"] = "stored"
    /\ wref["b"] = "stored"
    /\ storage["a"] # wpre["a"][1]
    /\ storage["b"] = wpre["b"][1]

\* C9: process_messages runs the Reflector over the combined set (existing
\* observations followed by the new ones) if and only if the token size of that
\* set is strictly greater than reflection_threshold; otherwise the combined set
\* is what gets stored.
C9_ReflectIffOverThreshold ==
    \A t \in Threads :
        wpc[t] \in PMpcs =>
            LET combined == PreRecord(t).observations \o wnew[t]
                over     == count_observations(combined) > config.reflection_threshold
            IN  /\ wreflected[t] <=> over
                /\ wcombined[t] = IF over THEN reflect(combined) ELSE combined
                /\ wpc[t] \in {"obs_written", "task_written"} =>
                       Rec(t).observations = wcombined[t]

\* a combined set whose size is exactly the threshold has been stored unreflected
C9_Witness ==
    \E t \in Threads :
        /\ wpc[t] = "obs_written"
        /\ wref[t] = "stored"
        /\ wnew[t] # <<>>
        /\ ~wreflected[t]
        /\ count_observations(storage[t].observations) = config.reflection_threshold

-----------------------------------------------------------------------------
(* Claims about the Reflector (SpecReflect) *)

HasGreen(obs) == \E k \in 1..Len(obs) : obs[k].priority = "GREEN"

\* C10: for every observation list that contains at least one GREEN item, the
\* list reflect returns is no longer than the input list.
C10_ReflectorSizeLaw ==
    (rpc = "done" /\ HasGreen(rin)) => Len(rout) <= Len(rin)

\* one GREEN item was dropped and the summary appended: the lengths are equal
C10_Witness ==
    /\ rpc = "done"
    /\ HasGreen(rin)
    /\ Len(rin) >= 2
    /\ Len(rout) = Len(rin)

IsRed(o) == o.priority = "RED"

\* a is b with some items left out: same items, same relative order
RECURSIVE IsSubSeq(_, _)
IsSubSeq(a, b) ==
    IF a = <<>> THEN TRUE
    ELSE IF b = <<>> THEN FALSE
    ELSE IF Head(a) = Head(b) THEN IsSubSeq(Tail(a), Tail(b))
    ELSE IsSubSeq(a, Tail(b))

\* C11: every RED observation of the list first handed to reflect is, unchanged
\* and in the same relative order, in the list returned by reflect, after one
\* reflection and after every further reflection of the result.
C11_RedSurvivesReflection ==
    rpc \in {"done", "again"} => IsSubSeq(SelectSeq(rin, IsRed), rout)

\* a list with two RED items and something else has been reflected three times
C11_Witness ==
    /\ rpc = "again"
    /\ rounds = 3
    /\ \E j, k \in 1..Len(rin) :
           j < k /\ IsRed(rin[j]) /\ IsRed(rin[k]) /\ rin[j] # rin[k]
    /\ Len(SelectSeq(rin, IsRed)) < Len(rin)

\* out is `kept` followed by exactly one synthesized RED observation whose
\* content states Len(kept)
IsKeptPlusSummary(out, kept) ==
    /\ Len(out) = Len(kept) + 1
    /\ \A k \in 1..Len(kept) : out[k] = kept[k]
    /\ out[Len(out)].priority = "RED"
    /\ out[Len(out)].content =
           "Memory consolidated: " \o ToString(Len(kept)) \o " key observations preserved"

\* C12 as stated: for every input list, reflect returns the input's RED and
\* YELLOW observations followed by exactly one synthesized RED observation that
\* states how many were preserved.
C12_FallbackShape_EveryInput ==
    rpc = "done" => IsKeptPlusSummary(rout, SelectSeq(rin, IsKept))

\* C12: for every input list with at least one RED or YELLOW observation,
\* reflect returns the input's RED and YELLOW observations, in order, followed
\* by exactly one synthesized RED observation that states how many were
\* preserved; for an input list with none (empty, or GREEN only) it returns the
\* empty list, with no synthesized observation.
C12_FallbackShape ==
    rpc = "done" =>
        LET kept == SelectSeq(rin, IsKept)
        IN  IF kept # <<>> THEN IsKeptPlusSummary(rout, kept) ELSE rout = <<>>

\* two of three observations were kept and the summary says 2
C12_Witness ==
    /\ rpc = "done"
    /\ Len(rin) = 3
    /\ HasGreen(rin)
    /\ Len(rout) = 3
    /\ rout[3].content = "Memory consolidated: 2 key observations preserved"

-----------------------------------------------------------------------------
(* Claims about the controller, continued (Spec) *)

\* C13: whenever a process_messages call finds the combined observation set
\* above reflection_threshold, the set the reflection returns has a
\* token-equivalent size no larger than that of the combined set it was given.
C13_ReflectionNeverGrowsTheSet ==
    \A t \in Threads :
        (wpc[t] \in PMpcs /\ wreflected[t]) =>
            count_observations(wcombined[t])
                <= count_observations(PreRecord(t).observations \o wnew[t])

\* C15: for a thread id with no record, get_context returns the sentinel
\* string, get_stats returns the zero-value stats with both keys
\* total_observations and has_current_task present, and a force_reflection call
\* that found no record returned the no-op result and created no record.
C15_MissingRecordReads ==
    \A t \in Threads :
        t \notin DOMAIN storage =>
            /\ get_context(storage, t) = "No observations yet."
            /\ {"total_observations", "has_current_task"} \subseteq get_stats(storage, t).keys
            /\ get_stats(storage, t).total_observations = 0
            /\ get_stats(storage, t).has_current_task = FALSE
            /\ wresult[t].kind = "text" => wresult[t].text = "No observations to reflect."

DaysOf(obs) == { obs[k].timestamp.day : k \in 1..Len(obs) }

DateHeader(d) == "Date: " \o DateKey(Time(d, 0))

\* lines is the date-grouped listing of obs: one header line per calendar date,
\* the headers in ascending date order, and between a date's header and the next
\* header exactly the lines of that date's observations, in their list order
IsDateGroupedListing(lines, obs) ==
    /\ Len(lines) = Len(obs) + Cardinality(DaysOf(obs))
    /\ \A d \in DaysOf(obs) :
           \E p \in 1..Len(lines) :
               LET OnDay(o) == o.timestamp.day = d
                   group    == SelectSeq(obs, OnDay)
               IN  /\ lines[p] = DateHeader(d)
                   /\ p + Len(group) <= Len(lines)
                   /\ \A k \in 1..Len(group) :
                          lines[p + k] =
                              "* " \o group[k].priority \o " ("
                                   \o TimeStr(group[k].timestamp) \o ") " \o group[k].content
                   /\ \A e \in DaysOf(obs) : \A q \in 1..Len(lines) :
                          (lines[q] = DateHeader(e) /\ e < d) => q < p

GetContextStep ==
    \/ \E t \in ConcThreads : R_Begin("get_context", t)
    \/ GC_ReadObs
    \/ GC_ReadSugg
    \/ GC_ReadTask

\* the step ends a get_context call during which the thread's record was left
\* as it was: no writer call on the thread was in flight with a pending change
\* when it fetched the record and none began before it read its last field (the
\* call knows of one version of the record, or of none when there is no record).
\* A second get_context call made right after it is a call with no
\* process_messages or force_reflection call between the two.
EndsGetContextOnUnchangedRecord ==
    /\ reader.pc # "done"
    /\ reader'.pc = "done"
    /\ reader'.op = "get_context"
    /\ Cardinality(reader'.versions) <= 1

\* C17: a get_context call and a second get_context call on the same thread,
\* with no process_messages or force_reflection call between them, return
\* identical text, and no step of get_context changes the stored record.
C17_ContextDeterminism ==
    [][/\ GetContextStep => storage' = storage
       /\ EndsGetContextOnUnchangedRecord =>
              reader'.text = get_context(storage', reader'.thread)]_vars

\* a get_context call returned the rendering of the record that a finished
\* process_messages call left, with no writer call since
C17_Witness ==
    /\ reader.pc = "done"
    /\ reader.op = "get_context"
    /\ wpc[reader.thread] = "idle"
    /\ wresult[reader.thread].kind = "record"
    /\ reader.versions = {wresult[reader.thread].record}
    /\ storage[reader.thread] = wresult[reader.thread].record
    /\ storage[reader.thread].observations # <<>>
    /\ reader.text = ContextOf(storage[reader.thread])

-----------------------------------------------------------------------------
(* Claims about the Observer (SpecObserve) *)

IsFamily(msg) == "kids" \in msg.content \/ "children" \in msg.content
IsWork(msg)   == "work" \in msg.content \/ "job" \in msg.content

\* out lists, message by message and in message order, what the claim allows:
\* nothing for a message that is not the user's or matches no keyword, exactly
\* one RED family observation for a user message with a family keyword, exactly
\* one YELLOW observation for a user message with a work keyword only, each
\* anchored at its message's timestamp
RECURSIVE IsFallbackExtraction(_, _)
IsFallbackExtraction(msgs, out) ==
    IF msgs = <<>> THEN out = <<>>
    ELSE LET msg == Head(msgs)
         IN  IF msg.role = "user" /\ (IsFamily(msg) \/ IsWork(msg))
             THEN /\ out # <<>>
                  /\ out[1].timestamp = msg.timestamp
                  /\ IsFamily(msg) =>
                         /\ out[1].priority = "RED"
                         /\ out[1].content = "User mentioned family (children)"
                  /\ ~IsFamily(msg) => out[1].priority = "YELLOW"
                  /\ IsFallbackExtraction(Tail(msgs), Tail(out))
             ELSE IsFallbackExtraction(Tail(msgs), out)

\* C14: the Observer's fallback emits at most one observation per message and
\* none for a message whose role is not user: one RED family observation for a
\* user message with "kids" or "children", one YELLOW observation for a user
\* message with a work keyword only, none for an unmatched one, each anchored at
\* the timestamp of its own message.
C14_ObserverFallback ==
    opc = "done" => IsFallbackExtraction(omsgs, oout.observations)

\* an assistant message with a family keyword was skipped and a user message
\* with both kinds of keyword gave one RED observation at its own timestamp
C14_Witness ==
    /\ opc = "done"
    /\ Len(omsgs) = 2
    /\ omsgs[1].role = "assistant" /\ IsFamily(omsgs[1]) /\ omsgs[1].timestamp = T0
    /\ omsgs[2].role = "user" /\ IsFamily(omsgs[2]) /\ IsWork(omsgs[2])
    /\ omsgs[2].timestamp = T2
    /\ Len(oout.observations) = 1
    /\ oout.observations[1].timestamp = T2

-----------------------------------------------------------------------------
(* Claims about the evaluator (SpecEval) *)

\* C19: the thread-level score returned by evaluate_thread is
\* 100 * (sum of credit_assigned over the results) / (sum of importance over the
\* chunks), each credit_assigned being importance * reconstruction_quality of
\* its chunk, and evaluate_thread([]) returns no result and the score 0.
C19_ThreadScore ==
    epc = "done" =>
        /\ Len(chunk_results) = Len(chunks)
        /\ \A k \in 1..Len(chunk_results) :
               FracEq(chunk_results[k].credit_assigned,
                      FracMul(chunks[k].importance, chunk_results[k].reconstruction_quality))
        /\ messages = <<>> => (chunk_results = <<>> /\ overall_score.num = 0)
        /\ messages # <<>> =>
               FracEq(FracMul(overall_score,
                              FracSum([k \in 1..Len(chunks) |-> chunks[k].importance])),
                      FracMul(Frac(100, 1),
                              FracSum([k \in 1..Len(chunk_results) |->
                                          chunk_results[k].credit_assigned])))

\* a thread of two chunks with different reconstruction qualities got a score
\* strictly between 0 and 100
C19_Witness ==
    /\ epc = "done"
    /\ Len(chunk_results) = 2
    /\ ~FracEq(chunk_results[1].reconstruction_quality,
               chunk_results[2].reconstruction_quality)
    /\ overall_score.num > 0
    /\ overall_score.num < 100 * overall_score.den

\* every message of the chunk has empty content
HasEmptyText(chunk) == \A k \in 1..Len(chunk.messages) : chunk.messages[k].text = <<>>

\* C20: for a chunk all of whose messages have empty content,
\* reconstruction_quality is 0.
C20_EmptyChunkQualityZero ==
    \A k \in 1..Len(chunk_results) :
        HasEmptyText(chunks[k]) => chunk_results[k].reconstruction_quality.num = 0

-----------------------------------------------------------------------------
(* Construction of the controller with any configuration (SpecCtor) *)

\* the configurations a caller may hand to ObservationalMemory(config): the
\* default one, and ones with a non-positive or mis-ordered threshold
ConfigInputs ==
    Configs \cup
    { [observation_threshold |-> 0,  reflection_threshold |-> 15],
      [observation_threshold |-> 8,  reflection_threshold |-> 0],
      [observation_threshold |-> 15, reflection_threshold |-> 15],
      [observation_threshold |-> 16, reflection_threshold |-> 15] }

\* ObservationalMemory.__init__: `self.config = config or default_config()`,
\* stored as given; the store holds no record or a seeded one for the thread
InitCtor ==
    /\ ChunkOff
    /\ ReflectOff
    /\ ObserveOff
    /\ EvalOff
    /\ storage \in UNION { [D -> SeedRecords] : D \in SUBSET ConcThreads }
    /\ config \in ConfigInputs
    /\ wpc = [t \in Threads |-> "idle"]
    /\ wrec = [t \in Threads |-> ObservationalMemoryRecord(<<>>)]
    /\ wref = [t \in Threads |-> "none"]
    /\ wnew = [t \in Threads |-> <<>>]
    /\ wtask = [t \in Threads |-> ""]
    /\ wsugg = [t \in Threads |-> ""]
    /\ wcombined = [t \in Threads |-> <<>>]
    /\ wreflected = [t \in Threads |-> FALSE]
    /\ wpre = [t \in Threads |-> <<>>]
    /\ wresult = [t \in Threads |-> NoResult]
    /\ calls = 0
    /\ reader = IdleReader

NextCtor == \E t \in ConcThreads : Writer(t)

SpecCtor == InitCtor /\ [][NextCtor]_vars

\* both thresholds positive and observation_threshold below reflection_threshold
IsValidConfig(cfg) ==
    /\ cfg.observation_threshold > 0
    /\ cfg.reflection_threshold > 0
    /\ cfg.observation_threshold < cfg.reflection_threshold

\* C21: a controller whose configuration has a non-positive threshold or
\* observation_threshold >= reflection_threshold is never constructed, so no
\* process_messages call starts, runs or returns under such a configuration.
C21_NoCallUnderInvalidConfig ==
    ~IsValidConfig(config) =>
        /\ calls = 0
        /\ \A t \in Threads : wpc[t] = "idle"

-----------------------------------------------------------------------------
(* Further claims about the chunker (SpecChunk) *)

\* min(max_chunk_size, max(min_chunk_size, remaining)) for a chunk starting at start
CandidateSize(start) ==
    Min(max_chunk_size, Max(min_chunk_size, Len(messages) - start))

\* the offsets k, min_chunk_size <= k < candidate, at which the message
\* start + k alone classifies differently from the chunk's first message
ShiftOffsets(start) ==
    { k \in min_chunk_size..(CandidateSize(start) - 1) :
        _classify_semantic_type(Slice(messages, start + k, start + k + 1))
            # _classify_semantic_type(Slice(messages, start, start + 1)) }

\* C22: when the candidate end lies before the end of the sequence, the size
\* of the chunk is the smallest offset k with min_chunk_size <= k < candidate at
\* which the classification shifts, and the full candidate size when there is
\* none; shifts at offsets below min_chunk_size do not shorten the chunk.
C22_BoundarySnapping ==
    \A n \in 1..Len(chunks) :
        LET start == chunks[n].start_idx
            S     == ShiftOffsets(start)
        IN  start + CandidateSize(start) < Len(messages) =>
                ChunkSize(chunks[n]) =
                    IF S # {} THEN CHOOSE k \in S : \A l \in S : k <= l
                    ELSE CandidateSize(start)

-----------------------------------------------------------------------------
(* Further claims about the controller (Spec, SpecReflect) *)

\* TokenCounter.count_messages: the token size of the new messages, one token
\* for each keyword a message consists of
count_messages(msgs) ==
    SeqSum([k \in 1..Len(msgs) |-> Cardinality(msgs[k].content)])

\* C23: a process_messages call whose new-message token size does not exceed
\* observation_threshold does not invoke the Observer, so it adds no new
\* observation to the ones of the record.
C23_ObserverOnlyOverThreshold ==
    [][ \A t \in Threads : \A msgs \in BoundedSeqs(MsgPool, MaxMsgs) :
            (PM_Begin(t, msgs) /\ count_messages(msgs) <= config.observation_threshold)
                => wnew'[t] = <<>> ]_vars


\* the messages of a call come in non-decreasing timestamp order and none is
\* older than the newest observation the thread's record already holds, whose
\* observations are in anchor-timestamp order
ArrivesInTimeOrder(t, msgs) ==
    LET prior == IF t \in DOMAIN storage THEN storage[t].observations ELSE <<>>
    IN  /\ IsTimeOrdered(prior)
        /\ IsTimeOrdered(msgs)
        /\ (prior # <<>> /\ msgs # <<>>) =>
               TimeLeq(prior[Len(prior)].timestamp, msgs[1].timestamp)

\* C24: given messages in non-decreasing timestamp order, the observations a
\* process_messages call writes to the record and returns are in non-decreasing
\* anchor-timestamp order, also when the Reflector has added its consolidation
\* observation.
C24_ObservationsStayTimeOrdered ==
    [][ \A t \in Threads : \A msgs \in BoundedSeqs(MsgPool, MaxMsgs) :
            (PM_Begin(t, msgs) /\ ArrivesInTimeOrder(t, msgs))
                => IsTimeOrdered(wcombined'[t]) ]_vars


\* the number of copies of observation o in the sequence obs
Occurrences(o, obs) == Cardinality({ k \in 1..Len(obs) : obs[k] = o })

\* the window msgs was processed for thread t before: the observations the
\* Observer extracts from it are in the thread's stored record already
AlreadyProcessed(t, msgs) ==
    /\ t \in DOMAIN storage
    /\ LET ext == extract_observations(msgs, _format_observations(storage[t].observations))
       IN  /\ ext.observations # <<>>
           /\ \A k \in 1..Len(ext.observations) :
                  Occurrences(ext.observations[k], storage[t].observations) > 0

RecordBefore(t) ==
    IF wpre[t] # <<>> THEN wpre[t][1] ELSE ObservationalMemoryRecord(<<>>)

\* C26: when a process_messages call returns, current_task is the newly
\* extracted value if that is non-empty and otherwise the value the record had
\* before the call, and likewise suggested_response, in the returned record
\* and in the stored one, for every sequence of calls.
C26_TaskKeptUnlessExtracted ==
    [][ \A t \in Threads :
            PM_Return(t) =>
                LET res == wresult'[t].record
                IN  /\ res.current_task =
                           IF wtask[t] # "" THEN wtask[t]
                           ELSE RecordBefore(t).current_task
                    /\ res.suggested_response =
                           IF wsugg[t] # "" THEN wsugg[t]
                           ELSE RecordBefore(t).suggested_response
                    /\ wref[t] = "stored" =>
                           /\ storage'[t].current_task = res.current_task
                           /\ storage'[t].suggested_response = res.suggested_response ]_vars

\* a call that extracted a new observation and no task returned on a thread
\* whose record had a task and a suggested response: both are still there
C26_Witness ==
    \E t \in Threads :
        /\ wpc[t] = "idle"
        /\ wresult[t].kind = "record"
        /\ t \in DOMAIN storage
        /\ storage[t].current_task = "write the report"
        /\ storage[t].suggested_response = "ask about the deadline"
        /\ wresult[t].record = storage[t]
        /\ \E k \in 1..Len(storage[t].observations) :
               storage[t].observations[k].timestamp = T1

-----------------------------------------------------------------------------
(* Further claims about the evaluator (SpecEval) *)

\* C27: reconstruction_quality lies in [0, 1]; against a rendered context it
\* is 1 exactly when the chunk's concatenated text appears verbatim in the
\* context, and otherwise it is 0.9 * |chunk_words \cap context_words| /
\* |chunk_words|, never above 0.9.
C27_ReconstructionQuality ==
    \A k \in 1..Len(chunk_results) :
        LET q             == chunk_results[k].reconstruction_quality
            chunk_text    == JoinContents(chunks[k].messages)
            chunk_words   == SplitWords(Lower(chunk_text))
            context_words == SplitWords(Lower(paom[1]))
        IN  /\ q.num >= 0 /\ q.den > 0 /\ q.num <= q.den
            /\ paom # <<>> =>
                   /\ (q.num = q.den) <=> IsInfix(chunk_text, paom[1])
                   /\ ~IsInfix(chunk_text, paom[1]) =>
                          /\ 10 * q.num * Cardinality(chunk_words)
                                 = 9 * Cardinality(chunk_words \cap context_words) * q.den
                          /\ 10 * q.num <= 9 * q.den

\* against one rendered context, one chunk was found verbatim (quality 1) and
\* another only by its lower-cased words (quality above 0, not above 0.9)
C27_Witness ==
    /\ epc = "done"
    /\ paom # <<>>
    /\ \E k, l \in 1..Len(chunk_results) :
           /\ chunk_results[k].reconstruction_quality = Frac(1, 1)
           /\ chunk_results[l].reconstruction_quality.num > 0
           /\ ~IsInfix(JoinContents(chunks[l].messages), paom[1])


\* C29: the thread-level score returned by evaluate_thread lies in [0, 100],
\* and every chunk's credit_assigned is at most the chunk's importance.
C29_ScoreAndCreditBounds ==
    /\ \A k \in 1..Len(chunk_results) :
           /\ chunk_results[k].credit_assigned.num >= 0
           /\ FracLeq(chunk_results[k].credit_assigned, chunks[k].importance)
    /\ epc = "done" =>
           /\ overall_score.num >= 0
           /\ FracLeq(overall_score, Frac(100, 1))

\* a thread of two chunks: one gets its whole importance as credit, the other
\* none, and the score lies strictly inside the range
C29_Witness ==
    /\ epc = "done"
    /\ \E k, l \in 1..Len(chunk_results) :
           /\ chunk_results[k].credit_assigned = chunks[k].importance
           /\ chunk_results[l].credit_assigned.num = 0
    /\ overall_score.num > 0
    /\ ~FracLeq(Frac(100, 1), overall_score)

\* InteractionChunker.chunk from index idx on, as one function: the chunks
\* numbered n, n + 1, ...
RECURSIVE chunk(_, _, _, _, _)
chunk(msgs, idx, n, minsz, maxsz) ==
    IF idx >= Len(msgs) THEN <<>>
    ELSE LET chunk_size == _determine_chunk_size(msgs, idx, minsz, maxsz)
         IN  <<InteractionChunk(n, idx, chunk_size, msgs, minsz, maxsz)>>
                 \o chunk(msgs, idx + chunk_size, n + 1, minsz, maxsz)

\* the threads with as many messages as the evaluated one whose chunks have
\* the same boundaries
SameShapeThreads ==
    { other \in [1..Len(messages) -> { EvalMessage(x) : x \in EvalTexts }] :
        LET oc == chunk(other, 0, 0, min_chunk_size, max_chunk_size)
        IN  /\ Len(oc) = Len(chunks)
            /\ \A k \in 1..Len(oc) :
                   /\ oc[k].start_idx = chunks[k].start_idx
                   /\ oc[k].end_idx = chunks[k].end_idx }

\* C30: for an evaluator without a memory instance, reconstruction_quality of a
\* chunk is 0.85 + 0.1 * importance, a function of the chunk's start index and
\* the number of messages only: every thread with the same number of messages
\* and the same chunk boundaries gets the same values, whatever its text.
C30_MockQualityIgnoresContent ==
    (epc = "done" /\ paom = <<>>) =>
        /\ \A k \in 1..Len(chunk_results) :
               chunk_results[k].reconstruction_quality =
                   FracAdd(Frac(17, 20),
                           FracMul(_calculate_importance(chunks[k].start_idx,
                                                         Len(messages)),
                                   Frac(1, 10)))
        /\ \A other \in SameShapeThreads :
               LET oc == chunk(other, 0, 0, min_chunk_size, max_chunk_size)
               IN  \A k \in 1..Len(oc) :
                       _evaluate_chunk(oc[k], <<>>).reconstruction_quality
                           = chunk_results[k].reconstruction_quality

\* a thread of two chunks was evaluated without a memory, and a thread of the
\* same shape exists in which no message has the same text
C30_Witness ==
    /\ epc = "done"
    /\ paom = <<>>
    /\ Len(chunk_results) = 2
    /\ \E other \in SameShapeThreads :
           \A k \in 1..Len(messages) : other[k].text # messages[k].text

-----------------------------------------------------------------------------
(* Termination of the chunker (SpecChunkLive) *)

\* C28: with 1 <= min_chunk_size <= max_chunk_size, chunk returns on every
\* finite message sequence: every loop iteration advances the index by at
\* least 1, also when boundary snapping shortens the chunk, and there are
\* never more chunks than messages.
C28_ChunkTerminates ==
    /\ [][ChunkStep => i' >= i + 1]_vars
    /\ [](Len(chunks) <= Len(messages))
    /\ <>(cpc = "done")

\* chunk returned several chunks, one of them shortened by boundary snapping
C28_Witness ==
    /\ cpc = "done"
    /\ Len(chunks) >= 2
    /\ \E n \in 1..Len(chunks) :
           ChunkSize(chunks[n]) < CandidateSize(chunks[n].start_idx)

====
